---- MODULE Spec2Model ----
(***************************************************************************)
(* State-machine model of prompt_toolkit/layout/controls.py:               *)
(*   - UIContent: line access, the per-line height cache and the wrapping  *)
(*     loop of get_height_for_line, get_height_for_text;                   *)
(*   - BufferControl: create_content with its lexer cache and its cache of *)
(*     processed lines, preferred_height and mouse_handler;                *)
(*   - FormattedTextControl: its fragment cache, create_content, reset and *)
(*     mouse_handler.                                                      *)
(* Texts are sequences of one-character strings.  "W" stands for a         *)
(* double-width character, "\n" for the line separator.                    *)
(***************************************************************************)
EXTENDS Integers, Sequences, FiniteSets, TLC

(***************************************************************************)
(* Bounds of the model.                                                    *)
(***************************************************************************)
\* Longest text a Content is built from (characters, separators included).
MaxTextLen == 2
\* Widest window asked for; widths range over 0..MaxWidth.
MaxWidth == 2
\* Longest line prefix (characters) a get_line_prefix function returns.
MaxPrefix == 2
\* The host bumps render_counter at most this many times.
MaxGen == 1
\* get_height_for_line calls explored on one Content.
MaxCalls == 2

\* Longest document held by the Buffer of a BufferControl.
MaxDocLen == 2
\* Characters the widest input processor inserts before a line.
MaxShift == 1
\* The clock runs from 1 to MaxTime, in ticks of 100 ms.
MaxTime == 3

\* Formatted text of a FormattedTextControl: characters per fragment, fragments.
MaxFragLen == 1

MaxFragments == 2

\* to_formatted_text calls counted per render generation: this many, or more.
MaxConversions == 2

\* Applications of the processors to one line counted: this many, or more.
MaxTransforms == 2

\* The lexer's invalidation_hash() takes the values 0..MaxToken.
MaxToken == 1

\* "Something very big" returned when nothing fits.
Sentinel == 100000000
\* A double click: two MOUSE_UP events less than .3 s apart (ticks of 100 ms).
DoubleClickTicks == 2
\* BufferControl._fragment_cache is a SimpleCache(maxsize=8).
LexerCacheSize == 8
\* _last_click_timestamp before the first MOUSE_UP: None, which is false as 0.0 is.
NoTimestamp == 0

(***************************************************************************)
(* Values.                                                                 *)
(***************************************************************************)
Chars == {"a", "W", "\n"}

SeqsUpTo(S, n) == UNION {[1..k -> S] : k \in 0..n}

Max(a, b) == IF a >= b THEN a ELSE b

Min(a, b) == IF a <= b THEN a ELSE b

\* Return values and raised exceptions of the modelled calls.
RetInt(n) == [kind |-> "int", int |-> n, val |-> <<>>]

RetLine(l) == [kind |-> "line", int |-> 0, val |-> l]

Raise(e) == [kind |-> e, int |-> 0, val |-> <<>>]

RetNone == [kind |-> "None", int |-> 0, val |-> <<>>]

RetNotImplemented == [kind |-> "NotImplemented", int |-> 0, val |-> <<>>]

\* A UIContent of n lines: its cursor position and menu position (<<x, y>>, or
\* <<>> for None), and what it shows.
RetContent(n, cursor, menu, shown) ==
    [kind |-> "UIContent", int |-> n, val |-> <<cursor, menu, shown>>]

(***************************************************************************)
(* Collaborators of controls.py (prompt_toolkit.utils and                  *)
(* prompt_toolkit.formatted_text).                                         *)
(***************************************************************************)
\* Display width of one character: 2 for a wide character.
CharWidth(c) == IF c = "W" THEN 2 ELSE 1

RECURSIVE get_cwidth(_)
\* utils.get_cwidth: the sum of the characters' display widths.
get_cwidth(text) ==
    IF text = <<>> THEN 0
    ELSE CharWidth(Head(text)) + get_cwidth(Tail(text))

RECURSIVE fragment_list_to_text(_)
\* formatted_text.utils.fragment_list_to_text: the fragments' texts, joined.
fragment_list_to_text(fragments) ==
    IF fragments = <<>> THEN <<>>
    ELSE Head(fragments)[2] \o fragment_list_to_text(Tail(fragments))

\* formatted_text.to_formatted_text of a plain string: one unstyled fragment.
to_formatted_text(text) == << <<"", text>> >>

RECURSIVE SplitText(_, _, _)
\* The lines of a text, split at "\n" (str.split / split_lines): `done` are the
\* finished lines, `cur` the line being read.
SplitText(text, done, cur) ==
    IF text = <<>> THEN Append(done, cur)
    ELSE IF Head(text) = "\n" THEN SplitText(Tail(text), Append(done, cur), <<>>)
    ELSE SplitText(Tail(text), done, Append(cur, Head(text)))

\* One unstyled fragment per line, as split_lines gives for a plain text (an
\* empty line has no fragment).
LineFragments(line) == IF line = <<>> THEN <<>> ELSE << <<"", line>> >>

FragmentLines(text) ==
    LET ls == SplitText(text, <<>>, <<>>)
    IN  [i \in 1..Len(ls) |-> LineFragments(ls[i])]

(***************************************************************************)
(* Inputs.                                                                 *)
(***************************************************************************)
Texts == SeqsUpTo(Chars, MaxTextLen)

Widths == 0..MaxWidth

\* A line of text without separator, for get_height_for_text.
LineTexts == SeqsUpTo(Chars \ {"\n"}, MaxTextLen)

PrefixText(n) == [i \in 1..n |-> ">"]

\* get_line_prefix: None, or a callable giving the prefix of the first row and
\* of the continuation rows of a line.
NoPrefix == [given |-> FALSE, first |-> <<>>, cont |-> <<>>]

PrefixFuncs ==
    {NoPrefix} \cup
    {[given |-> TRUE, first |-> PrefixText(a), cont |-> PrefixText(b)] :
        a \in 0..MaxPrefix, b \in 0..MaxPrefix}

\* get_line_prefix(width, lineno, is_continuation); None stands for
\* `lambda *a: []`.
CallPrefix(f, w, l, is_continuation) ==
    IF ~f.given THEN <<>>
    ELSE to_formatted_text(IF is_continuation THEN f.cont ELSE f.first)

VARIABLES
    render_counter,   \* get_app().render_counter
    fragment_lines,   \* what the Content's get_line reads from
    line_count,       \* UIContent.line_count
    line_heights,     \* UIContent._line_heights: key -> height
    stored_with,      \* history: the prefix function each cached height was computed with
    pc,               \* position in get_height_for_line: idle, loop, store, done
    op,               \* the operation called last
    lineno,           \* its arguments and locals
    width,
    get_line_prefix,
    text,
    key,
    text_width,
    height,
    cached,           \* history: the call was answered from _line_heights
    calls,            \* get_height_for_line calls made on this Content
    ret,              \* the return value, or the exception raised
    get_line_log,     \* line numbers the operation passed to get_line
    buffer_text,            \* BufferControl.buffer.text
    cursor_position,        \* BufferControl.buffer.cursor_position
    selection_state,        \* BufferControl.buffer.selection_state
    input_processors,       \* characters the processors insert before each line
    has_focus,              \* get_app().layout.current_control == self
    last_get_processed_line,\* BufferControl._last_get_processed_line
    fragment_cache,         \* BufferControl._fragment_cache: its entries, oldest first
    last_click_timestamp,   \* BufferControl._last_click_timestamp
    now,                    \* time.time()
    released_at,            \* history: when the release branch of mouse_handler ran last
    event,                  \* the mouse event handled last
    render_call,            \* what create_content reads from the application and the
                            \* control, and the preview_search argument of the last call
    line_cache,             \* the processed lines get_processed_line has memoized
    asked,                  \* the last get_line(i) call on the Content, and how often in a row
    memo,                   \* the lines in the `cache` of get_processed_line, each with the
                            \* number of times transform() ran for it
    invalidation_hash,      \* what lexer.invalidation_hash() returns now
    lexer_used,             \* the lexer result the last create_content took from
                            \* _fragment_cache: what was lexed, and under which hash
    static_text,            \* FormattedTextControl.text: the value it has now
    static_style,           \* FormattedTextControl.style
    static_fragment_cache,  \* FormattedTextControl._fragment_cache
    static_content_cache,   \* FormattedTextControl._content_cache: the keys held
    static_fragments,       \* FormattedTextControl._fragments
    conversions,            \* history: to_formatted_text calls per render generation
    generation_first,       \* history: the first call of the latest generation
    seen,                   \* history: the fragments the last call worked with
    last_render,            \* history: never rendered, content created, or reset since
    click                   \* history: the last mouse position, the click handlers invoked

ui_vars == <<render_counter, fragment_lines, line_count, line_heights, stored_with,
             pc, lineno, width, get_line_prefix, text, key, text_width, height,
             cached, calls, get_line_log>>

buffer_vars == <<buffer_text, cursor_position, selection_state, input_processors,
                 has_focus, last_get_processed_line, fragment_cache,
                 last_click_timestamp, now, released_at, event>>

render_vars == <<render_call, line_cache, asked, memo, invalidation_hash, lexer_used>>

static_vars == <<static_text, static_style, static_fragment_cache, static_content_cache,
                 static_fragments, conversions, generation_first, seen, last_render,
                 click>>

vars == <<ui_vars, op, ret, buffer_vars, render_vars, static_vars>>

content_vars == <<fragment_lines, line_count>>

cache_vars == <<line_heights, stored_with, calls>>

\* Python's list indexing, fragment_lines[i]: a negative index counts from the end.
ListIndex(list, i) ==
    IF 0 <= i /\ i < Len(list) THEN RetLine(list[i + 1])
    ELSE IF i < 0 /\ Len(list) + i >= 0 THEN RetLine(list[Len(list) + i + 1])
    ELSE Raise("IndexError")

\* The Content's get_line callable: `lambda i: fragment_lines[i]`.
get_line(i) == ListIndex(fragment_lines, i)

\* The largest height a terminating wrap of these inputs reaches is below this;
\* a wrap that never ends goes on counting between the last two heights.
HeightCap == 2 * MaxTextLen + MaxPrefix + 2

Idle == pc \in {"idle", "done"}

NoKey == <<0, 0, 0>>

\* The operation called and its arguments.
Called(o, l, w, f, t) ==
    /\ op' = o
    /\ lineno' = l
    /\ width' = w
    /\ get_line_prefix' = f
    /\ text' = t

\* The operation has no use for the locals of get_height_for_line.
NoLocals ==
    /\ key' = NoKey
    /\ text_width' = 0
    /\ height' = 0
    /\ cached' = FALSE

NoSelection == [active |-> FALSE, original_cursor_position |-> 0]

NoEvent == [event_type |-> "", x |-> 0, y |-> 0, focused |-> FALSE,
            focus_on_click |-> FALSE,
            double_click |-> FALSE, after_press |-> FALSE]

NoProcessedLine == [set |-> FALSE, document |-> <<>>]

NoRenderCall ==
    [preview_search |-> FALSE, preview_filter |-> FALSE, search_attached |-> FALSE,
     search_text |-> <<>>, direction |-> "FORWARD", is_search_target |-> FALSE,
     menu_position |-> [given |-> FALSE, some |-> FALSE, index |-> 0],
     complete_state |-> [active |-> FALSE, original_cursor |-> 0]]

NoLine == [set |-> FALSE, i |-> 0, n |-> 0]

NoLexerResult == [set |-> FALSE, text |-> <<>>, hash |-> 0]

\* `cache = {}`
NoMemo == [r \in {} |-> 0]

RenderUnused ==
    /\ render_call = NoRenderCall
    /\ line_cache = <<>>
    /\ asked = NoLine
    /\ memo = NoMemo
    /\ invalidation_hash = 0
    /\ lexer_used = NoLexerResult

NoFragments == [set |-> FALSE, value |-> <<>>]

NoFragmentCache == [set |-> FALSE, key |-> 0, value |-> <<>>]

NoFirstCall == [set |-> FALSE, generation |-> 0, fragments |-> <<>>, text |-> <<>>]

NoClick == [x |-> 0, y |-> 0, handlers |-> <<>>]

\* A FormattedTextControl nothing is done with.
StaticUnused ==
    /\ static_text = <<>>
    /\ static_style = ""
    /\ static_fragment_cache = NoFragmentCache
    /\ static_content_cache = {}
    /\ static_fragments = NoFragments
    /\ conversions = [g \in 0..MaxGen |-> 0]
    /\ generation_first = NoFirstCall
    /\ seen = <<>>
    /\ last_render = "never"
    /\ click = NoClick

\* A BufferControl nothing is done with.
BufferUnused ==
    /\ RenderUnused
    /\ buffer_text = <<>>
    /\ cursor_position = 0
    /\ selection_state = NoSelection
    /\ input_processors = 0
    /\ has_focus = FALSE
    /\ last_get_processed_line = NoProcessedLine
    /\ fragment_cache = <<>>
    /\ last_click_timestamp = NoTimestamp
    /\ now = 1
    /\ released_at = NoTimestamp
    /\ event = NoEvent

\* A Content nothing is done with.
ContentUnused ==
    /\ render_counter = 0
    /\ fragment_lines = <<>>
    /\ line_count = 0
    /\ line_heights = <<>>
    /\ stored_with = <<>>
    /\ calls = 0
    /\ pc = "idle"
    /\ lineno = 0
    /\ width = 0
    /\ get_line_prefix = NoPrefix
    /\ text = <<>>
    /\ key = NoKey
    /\ text_width = 0
    /\ height = 0
    /\ cached = FALSE
    /\ get_line_log = <<>>

Init ==
    /\ BufferUnused
    /\ StaticUnused
    /\ render_counter = 0
    /\ \E t \in Texts :
          /\ fragment_lines = FragmentLines(t)
          /\ line_count = Len(FragmentLines(t))
    /\ line_heights = <<>>
    /\ stored_with = <<>>
    /\ calls = 0
    /\ pc = "idle"
    /\ op = "init"
    /\ lineno = 0
    /\ width = 0
    /\ get_line_prefix = NoPrefix
    /\ text = <<>>
    /\ key = NoKey
    /\ text_width = 0
    /\ height = 0
    /\ cached = FALSE
    /\ ret = RetNone
    /\ get_line_log = <<>>

\* The host starts a new render pass.
NewRender ==
    /\ Idle
    /\ render_counter < MaxGen
    /\ render_counter' = render_counter + 1
    /\ Called("render", 0, 0, NoPrefix, <<>>)
    /\ NoLocals
    /\ ret' = RetNone
    /\ get_line_log' = <<>>
    /\ pc' = "idle"
    /\ UNCHANGED <<content_vars, cache_vars, buffer_vars, render_vars, static_vars>>

\* __getitem__ with `lineno <= self.line_count`.
GetItem_OffByOne(i) ==
    /\ Idle
    /\ Called("getitem", i, 0, NoPrefix, <<>>)
    /\ NoLocals
    /\ IF i <= line_count
         THEN /\ ret' = get_line(i)
              /\ get_line_log' = <<i>>
         ELSE /\ ret' = Raise("IndexError")
              /\ get_line_log' = <<>>
    /\ pc' = "idle"
    /\ UNCHANGED <<render_counter, content_vars, cache_vars, buffer_vars, render_vars, static_vars>>

\* UIContent.__getitem__(lineno)
GetItem(i) ==
    /\ Idle
    /\ Called("getitem", i, 0, NoPrefix, <<>>)
    /\ NoLocals
    /\ IF i < line_count
         THEN /\ ret' = get_line(i)
              /\ get_line_log' = <<i>>
         ELSE /\ ret' = Raise("IndexError")
              /\ get_line_log' = <<>>
    /\ pc' = "idle"
    /\ UNCHANGED <<render_counter, content_vars, cache_vars, buffer_vars, render_vars, static_vars>>

\* get_height_for_text without `if remainder: quotient += 1`.
get_height_for_text_floor(t, w) ==
    IF w = 0 THEN RetInt(Sentinel)
    ELSE RetInt(Max(1, get_cwidth(t) \div w))

\* get_height_for_text without the `except ZeroDivisionError`.
get_height_for_text_raises(t, w) ==
    IF w = 0 THEN Raise("ZeroDivisionError")
    ELSE LET quotient == get_cwidth(t) \div w
             remainder == get_cwidth(t) % w
         IN  RetInt(Max(1, IF remainder # 0 THEN quotient + 1 ELSE quotient))

\* UIContent.get_height_for_text(text, width)
get_height_for_text(t, w) ==
    LET line_width == get_cwidth(t)
    IN  IF w = 0 THEN RetInt(Sentinel)      \* divmod raises ZeroDivisionError
        ELSE LET quotient == line_width \div w
                 remainder == line_width % w
             IN  RetInt(Max(1, IF remainder # 0 THEN quotient + 1 ELSE quotient))

GetHeightForText(t, w) ==
    /\ Idle
    /\ Called("get_height_for_text", 0, w, NoPrefix, t)
    /\ NoLocals
    /\ ret' = get_height_for_text(t, w)
    /\ get_line_log' = <<>>
    /\ pc' = "idle"
    /\ UNCHANGED <<render_counter, content_vars, cache_vars, buffer_vars, render_vars, static_vars>>

\* A cache key that leaves the line number out.
HeightKey_NoLine(l, w) == <<render_counter, 0, w>>

\* The key of the height cache: (render_counter, lineno, width).
HeightKey(l, w) == <<render_counter, l, w>>

\* The text width taken as len(text).
LineTextWidth_Len(l) == Len(fragment_list_to_text(get_line(l).val))

\* "Calculate text width first": the display width of the line's plain text.
LineTextWidth(l) == get_cwidth(fragment_list_to_text(get_line(l).val))

\* A too wide prefix only ends the loop, the height as counted so far.
HeightIfPrefixDoesNotFit_Counted(h) == h + 1

\* "Prefix doesn't fit": the height returned then.
HeightIfPrefixDoesNotFit(h) == Sentinel

\* get_height_for_line(lineno, width, get_line_prefix) up to the wrapping loop:
\* the cache lookup, the zero width, the width of the text and of the first
\* prefix.
HeightCall(l, w, f) ==
    /\ Idle
    /\ calls < MaxCalls
    /\ calls' = calls + 1
    /\ Called("get_height_for_line", l, w, f, <<>>)
    /\ key' = HeightKey(l, w)
    /\ IF HeightKey(l, w) \in DOMAIN line_heights
         THEN /\ cached' = TRUE
              /\ ret' = RetInt(line_heights[HeightKey(l, w)])
              /\ pc' = "done"
              /\ get_line_log' = <<>>
              /\ text_width' = 0
              /\ height' = 0
         ELSE /\ cached' = FALSE
              /\ ret' = RetNone
              /\ IF w = 0
                   THEN /\ height' = Sentinel
                        /\ pc' = "store"
                        /\ get_line_log' = <<>>
                        /\ text_width' = 0
                   ELSE /\ text_width' =
                              LineTextWidth(l)
                              + get_cwidth(fragment_list_to_text(CallPrefix(f, w, l, FALSE)))
                        /\ height' = 1
                        /\ pc' = "loop"
                        /\ get_line_log' = <<l>>
    /\ UNCHANGED <<render_counter, content_vars, line_heights, stored_with, buffer_vars, render_vars, static_vars>>

\* Whether a continuation prefix of this width ends the wrapping.
PrefixDoesNotFit(prefix_width, w) == prefix_width > w

\* One turn of `while text_width > width`.
HeightLoop ==
    /\ pc = "loop"
    /\ text_width > width
    /\ LET prefix_width ==
             get_cwidth(fragment_list_to_text(CallPrefix(get_line_prefix, width, lineno, TRUE)))
       IN  IF PrefixDoesNotFit(prefix_width, width)
             THEN /\ height' = HeightIfPrefixDoesNotFit(height)
                  /\ text_width' = text_width - width
                  /\ pc' = "store"
             ELSE /\ height' = IF height < HeightCap THEN height + 1 ELSE HeightCap - 1
                  /\ text_width' = text_width - width + prefix_width
                  /\ pc' = "loop"
    /\ UNCHANGED <<render_counter, content_vars, cache_vars, op, lineno, width,
                   get_line_prefix, text, key, cached, ret, get_line_log,
                   buffer_vars, render_vars, static_vars>>

\* "Cache and return": the loop has ended, or the width was 0.
HeightStore ==
    /\ \/ pc = "store"
       \/ pc = "loop" /\ text_width <= width
    /\ line_heights' = [k \in DOMAIN line_heights \cup {key} |->
                          IF k = key THEN height ELSE line_heights[k]]
    /\ stored_with' = [k \in DOMAIN stored_with \cup {key} |->
                          IF k = key THEN get_line_prefix ELSE stored_with[k]]
    /\ ret' = RetInt(height)
    /\ pc' = "done"
    /\ UNCHANGED <<render_counter, content_vars, calls, op, lineno, width,
                   get_line_prefix, text, key, text_width, height, cached,
                   get_line_log, buffer_vars, render_vars, static_vars>>

LineIndexes == -1..(MaxTextLen + 1)

Next ==
    \/ NewRender
    \/ \E l \in 0..(line_count - 1), w \in Widths, f \in PrefixFuncs : HeightCall(l, w, f)
    \/ HeightLoop
    \/ HeightStore

Spec == Init /\ [][Next]_vars

\* The interpreter runs a started call on: the loop and the return are taken
\* whenever they can be.
FairSpec == Spec /\ WF_vars(HeightLoop) /\ WF_vars(HeightStore)

NextAccess ==
    \/ \E i \in LineIndexes : GetItem(i)
    \/ \E t \in LineTexts, w \in Widths : GetHeightForText(t, w)

SpecAccess == Init /\ [][NextAccess]_vars

(***************************************************************************)
(* Buffer and Document (prompt_toolkit.buffer, prompt_toolkit.document),   *)
(* as BufferControl uses them.                                             *)
(***************************************************************************)
DocChars == {"a", ".", " ", "\n"}

DocTexts == SeqsUpTo(DocChars, MaxDocLen)

Abs(n) == IF n < 0 THEN -n ELSE n

\* Document.lines
DocLines(t) == SplitText(t, <<>>, <<>>)

RECURSIVE LineStart(_, _)
\* Document._line_start_indexes[row]
LineStart(t, row) ==
    IF row = 0 THEN 0
    ELSE LineStart(t, row - 1) + Len(DocLines(t)[row]) + 1

\* Document.translate_row_col_to_index: a row that indexes the lines (from the
\* end when negative) is taken, another one is brought to the first or the
\* last line; the column is brought into the line.
translate_row_col_to_index(t, row, col) ==
    LET n == Len(DocLines(t))
        r == IF row >= 0 /\ row < n THEN row
             ELSE IF row < 0 /\ row >= -n THEN n + row
             ELSE IF row < 0 THEN 0 ELSE n - 1
        result == LineStart(t, r) + Max(0, Min(col, Len(DocLines(t)[r + 1])))
    IN  Max(0, Min(result, Len(t)))

IsWordChar(c) == c = "a"

IsSpace(c) == c \in {" ", "\n"}

\* Word characters, white space, and the rest.
CharClass(c) == IF IsWordChar(c) THEN "word" ELSE IF IsSpace(c) THEN "space" ELSE "other"

RECURSIVE RunLength(_, _)
\* The number of leading characters of s in class cls.
RunLength(s, cls) ==
    IF s = <<>> \/ CharClass(Head(s)) # cls THEN 0
    ELSE 1 + RunLength(Tail(s), cls)

\* The match of ^([a-zA-Z0-9_]+|[^a-zA-Z0-9_\s]+) on s: its length, 0 for none.
FindCurrentWord(s) ==
    IF s = <<>> \/ IsSpace(Head(s)) THEN 0
    ELSE RunLength(s, CharClass(Head(s)))

Reverse(s) == [i \in 1..Len(s) |-> s[Len(s) + 1 - i]]

\* Document.current_line_before_cursor
current_line_before_cursor(t, c) ==
    LET before == SubSeq(t, 1, c)
        breaks == {i \in 1..c : t[i] = "\n"}
        from == IF breaks = {} THEN 1
                ELSE (CHOOSE i \in breaks : \A j \in breaks : j <= i) + 1
    IN  SubSeq(before, from, c)

\* Document.current_line_after_cursor
current_line_after_cursor(t, c) ==
    LET breaks == {i \in (c + 1)..Len(t) : t[i] = "\n"}
        to == IF breaks = {} THEN Len(t)
              ELSE (CHOOSE i \in breaks : \A j \in breaks : i <= j) - 1
    IN  SubSeq(t, c + 1, to)

\* Document.find_boundaries_of_current_word(): <<start, end>> relative to the
\* cursor.
find_boundaries_of_current_word(t, c) ==
    LET match_before == FindCurrentWord(Reverse(current_line_before_cursor(t, c)))
        match_after == FindCurrentWord(current_line_after_cursor(t, c))
        drop == /\ match_before > 0
                /\ match_after > 0
                /\ IsWordChar(t[c]) # IsWordChar(t[c + 1])
    IN  << IF drop THEN 0 ELSE -match_before, match_after >>

\* SelectionState(original_cursor_position, SelectionType.CHARACTERS)
SelectionState(c) == [active |-> TRUE, original_cursor_position |-> c]

(***************************************************************************)
(* BufferControl.                                                          *)
(***************************************************************************)
\* The merged processors insert input_processors characters before a line:
\* the maps of the Transformation they give.
source_to_display(i) == i + input_processors

display_to_source(x) == x - input_processors

MouseEventTypes == {"MOUSE_DOWN", "MOUSE_UP", "SCROLL_UP", "SCROLL_DOWN"}

InitBuffer ==
    /\ ContentUnused
    /\ StaticUnused
    /\ RenderUnused
    /\ op = "init"
    /\ ret = RetNone
    /\ buffer_text \in DocTexts
    /\ cursor_position = 0
    /\ selection_state = NoSelection
    /\ input_processors \in 0..MaxShift
    /\ has_focus = FALSE
    /\ last_get_processed_line = NoProcessedLine
    /\ fragment_cache = <<>>
    /\ last_click_timestamp = NoTimestamp
    /\ now = 1
    /\ released_at = NoTimestamp
    /\ event = NoEvent

\* Time passes.
Tick ==
    /\ now < MaxTime
    /\ now' = now + 1
    /\ UNCHANGED <<ui_vars, render_vars, static_vars, op, ret, buffer_text, cursor_position, selection_state,
                   input_processors, has_focus, last_get_processed_line,
                   fragment_cache, last_click_timestamp, released_at, event>>

\* The host gives the focus to this control, or to another one.
FocusChange ==
    /\ has_focus' = ~has_focus
    /\ op' = "focus"
    /\ ret' = RetNone
    /\ event' = NoEvent
    /\ UNCHANGED <<ui_vars, render_vars, static_vars, buffer_text, cursor_position, selection_state,
                   input_processors, last_get_processed_line, fragment_cache,
                   last_click_timestamp, now, released_at>>

\* What create_content reads: the search field (None, or a SearchBufferControl
\* with its buffer's text and its search direction),
SearchFields ==
    {[attached |-> FALSE, text |-> <<>>, direction |-> "FORWARD"],
     [attached |-> TRUE, text |-> <<>>, direction |-> "FORWARD"],
     [attached |-> TRUE, text |-> <<"a">>, direction |-> "FORWARD"],
     [attached |-> TRUE, text |-> <<"a">>, direction |-> "BACKWARD"]}

\* the menu_position callback (None, or a callable giving None or an index),
MenuCallbacks ==
    {[given |-> FALSE, some |-> FALSE, index |-> 0],
     [given |-> TRUE, some |-> FALSE, index |-> 0],
     [given |-> TRUE, some |-> TRUE, index |-> 0]}

\* and buffer.complete_state (None, or a completion started at the cursor
\* position original_cursor).
CompleteStates ==
    {[active |-> FALSE, original_cursor |-> 0], [active |-> TRUE, original_cursor |-> 0]}

PreviewNow_AnyTarget(call) ==
    call.preview_search
        \/ (call.preview_filter /\ call.search_attached /\ call.search_text # <<>>)

\* preview_now
PreviewNow(call) ==
    call.preview_search
        \/ (call.preview_filter /\ call.search_attached /\ call.search_text # <<>>
              /\ call.is_search_target)

\* The text t has s at offset k.
Matches(t, s, k) == k + Len(s) <= Len(t) /\ SubSeq(t, k + 1, k + Len(s)) = s

\* Buffer.document_for_search(SearchState(text, direction)), for a buffer with
\* one working line: the cursor of the document it gives (the text is the
\* buffer's). Forward, the first match at or after the cursor, else the first
\* of the text; backward, the last match that ends at or before the cursor,
\* else the last of the text; the buffer's document when nothing matches.
document_for_search(t, c, s, direction) ==
    LET all == {k \in 0..Len(t) : Matches(t, s, k)}
        ahead == {k \in all : k >= c}
        behind == {k \in all : k + Len(s) <= c}
        first(S) == CHOOSE k \in S : \A j \in S : k <= j
        last(S) == CHOOSE k \in S : \A j \in S : k >= j
    IN  IF all = {} THEN c
        ELSE IF direction = "FORWARD"
          THEN IF ahead # {} THEN first(ahead) ELSE first(all)
          ELSE IF behind # {} THEN last(behind) ELSE last(all)

RenderedDocument_Stale(call) ==
    <<buffer_text,
      IF PreviewNow(call)
        THEN document_for_search(buffer_text, cursor_position, call.search_text,
                                 call.direction)
        ELSE IF ret.kind = "UIContent" THEN ret.val[3][2]
        ELSE cursor_position>>

\* The document create_content shows, <<text, cursor position>>:
\* buffer.document_for_search(...) if preview_now, else buffer.document.
RenderedDocument(call) ==
    <<buffer_text,
      IF PreviewNow(call)
        THEN document_for_search(buffer_text, cursor_position, call.search_text,
                                 call.direction)
        ELSE cursor_position>>

\* Document.translate_index_to_position(index): <<row, col>>.
translate_index_to_position(t, index) ==
    <<Len(DocLines(SubSeq(t, 1, index))) - 1, Len(current_line_before_cursor(t, index))>>

\* translate_rowcol(row, col): the content coordinate <<x, y>>.
translate_rowcol(position) == <<source_to_display(position[2]), position[1]>>

\* The fragments of a line after the lexer and the merged processors: the
\* characters the processors insert, then the line.
ProcessedFragments(line) ==
    (IF input_processors = 0 THEN <<>>
     ELSE << <<"class:prompt", [k \in 1..input_processors |-> ">"]>> >>)
    \o LineFragments(line)

\* What get_processed_line(i) gives for the lines of a document text.
ProcessedLines(t) == [i \in 1..Len(DocLines(t)) |-> ProcessedFragments(DocLines(t)[i])]

MenuComputed_Always == TRUE

\* "But only when this buffer has the focus."
MenuComputed == has_focus

\* content.menu_position, <<>> for None.
MenuPosition(call) ==
    IF ~MenuComputed THEN <<>>
    ELSE IF call.menu_position.given /\ call.menu_position.some
      THEN translate_rowcol(translate_index_to_position(buffer_text,
                                                        call.menu_position.index))
    ELSE IF call.complete_state.active
      THEN translate_rowcol(translate_index_to_position(buffer_text,
               Min(cursor_position, call.complete_state.original_cursor)))
    ELSE <<>>

\* create_content asked for the preview without a search field:
\* search_control.buffer of None raises AttributeError.
NoSearchControl(call) == PreviewNow(call) /\ ~call.search_attached

MemoHit_Never(m, i) == FALSE

\* get_processed_line(i): `return cache[i]` succeeds.
MemoHit(m, i) == i \in DOMAIN m

\* The cache after get_processed_line(i): on a KeyError transform() runs for the
\* line and its result is stored.
RequestLine(m, i) ==
    IF MemoHit(m, i) THEN m
    ELSE [r \in DOMAIN m \cup {i} |->
             IF r # i THEN m[r]
             ELSE IF i \in DOMAIN m THEN Min(m[i] + 1, MaxTransforms) ELSE 1]

\* The cache after create_content: the line of the cursor is processed for
\* cursor_position, then the line of the menu position.
MemoAfterRender(call) ==
    LET cursor == RequestLine(NoMemo,
                      translate_index_to_position(RenderedDocument(call)[1],
                                                  RenderedDocument(call)[2])[1])
    IN  IF MenuPosition(call) = <<>> THEN cursor
        ELSE RequestLine(cursor, MenuPosition(call)[2])

RECURSIVE RequestLines(_, _)
\* The cache after get_processed_line was called for the lines 0 .. n - 1.
RequestLines(m, n) ==
    IF n = 0 THEN m ELSE RequestLine(RequestLines(m, n - 1), n - 1)

\* The key with the document's text alone.
LexerKey_TextOnly(t) == <<t, 0>>

\* `key = (document.text, self.lexer.invalidation_hash())`
LexerKey(t) == <<t, invalidation_hash>>

\* self.lexer.lex_document(document): the function giving the lines' fragments,
\* known by the text that was lexed and the lexer's state at that moment.
lex_document(t) == [set |-> TRUE, text |-> t, hash |-> invalidation_hash]

\* SimpleCache.get(key, getter_func): the value held for the key, or else the
\* getter's value, which is stored, the oldest entry leaving a full cache.
SimpleCacheGet(cache, k, getter_value) ==
    IF \E i \in 1..Len(cache) : cache[i].key = k
      THEN [cache |-> cache,
            value |-> cache[CHOOSE i \in 1..Len(cache) : cache[i].key = k].value]
      ELSE LET stored == Append(cache, [key |-> k, value |-> getter_value])
           IN  [cache |-> IF Len(stored) > LexerCacheSize THEN Tail(stored) ELSE stored,
                value |-> getter_value]

\* _get_formatted_text_for_line_func(document)
get_formatted_text_for_line_func(t) ==
    SimpleCacheGet(fragment_cache, LexerKey(t), lex_document(t))

\* What create_content keeps: the document is lexed (through _fragment_cache)
\* and the function giving the processed lines is kept for mouse_handler and
\* for the Content's get_line. The lines it memoizes one by one are all
\* written here at once; lines_read of them are read by the caller before it
\* returns.
Render(call, lines_read) ==
    /\ render_call' = call
    /\ event' = NoEvent
    /\ IF NoSearchControl(call)
         THEN UNCHANGED <<fragment_cache, lexer_used, last_get_processed_line,
                          line_cache, asked, memo>>
         ELSE /\ fragment_cache' =
                    get_formatted_text_for_line_func(RenderedDocument(call)[1]).cache
              /\ lexer_used' =
                    get_formatted_text_for_line_func(RenderedDocument(call)[1]).value
              /\ last_get_processed_line' =
                    [set |-> TRUE, document |-> RenderedDocument(call)[1]]
              /\ line_cache' = ProcessedLines(RenderedDocument(call)[1])
              /\ asked' = NoLine
              /\ memo' = RequestLines(MemoAfterRender(call), lines_read)
    /\ UNCHANGED <<ui_vars, static_vars, buffer_text, cursor_position, selection_state,
                   input_processors, has_focus, last_click_timestamp, now,
                   released_at, invalidation_hash>>

\* BufferControl.create_content(width, height, preview_search): the Content has
\* the document's lines, its cursor translated to display coordinates, and the
\* menu position.
CreateContentWith(preview_search) ==
    LET call == [render_call EXCEPT !.preview_search = preview_search] IN
    /\ Render(call, 0)
    /\ op' = "create_content"
    /\ ret' = IF NoSearchControl(call) THEN Raise("AttributeError")
              ELSE LET document == RenderedDocument(call)
                   IN  RetContent(Len(DocLines(document[1])),
                                  translate_rowcol(translate_index_to_position(
                                      document[1], document[2])),
                                  MenuPosition(call), document)

\* create_content(width, height) of a control without search field, menu
\* callback and completion.
CreateContent == CreateContentWith(FALSE)

IsDoubleClick_Inclusive(timestamp, t) == timestamp # NoTimestamp /\ t - timestamp <= DoubleClickTicks

\* Two MOUSE_UP events in a short timespan.
IsDoubleClick(timestamp, t) == timestamp # NoTimestamp /\ t - timestamp < DoubleClickTicks

CursorMoved_Far(c, index) == Abs(c - index) > 2

CursorMoved_Any(c, index) == Abs(c - index) > 0

\* "When the cursor was moved to another place, select the text."
CursorMoved(c, index) == Abs(c - index) > 1

ClaimsFocus_OnAnyEvent(focus_on_click, event_type) == focus_on_click

\* "Not focused, but focusing on click events": focus happens on mouseup.
ClaimsFocus(focus_on_click, event_type) == focus_on_click /\ event_type = "MOUSE_UP"

\* The document offset of a mouse position: the column goes back through the
\* processors, then row and column are translated.
PositionIndex_Untranslated(x, y) == translate_row_col_to_index(buffer_text, y, x)

PositionIndex(x, y) ==
    translate_row_col_to_index(buffer_text, y, display_to_source(x))

\* The event the handler was called with, and what the handler saw: whether
\* the control had the focus, the value of the focus_on_click filter, whether
\* it took the release for a double click,
\* and whether the call before was the handler with a MOUSE_DOWN.
MouseEvent(event_type, x, y, focus_on_click, double_click) ==
    [event_type |-> event_type, x |-> x, y |-> y, focused |-> has_focus,
     focus_on_click |-> focus_on_click,
     double_click |-> double_click,
     after_press |-> event_type = "MOUSE_UP" /\ op = "mouse_handler"
                     /\ event.event_type = "MOUSE_DOWN"]

\* BufferControl.mouse_handler(mouse_event), with the value of the
\* focus_on_click filter.
MouseHandler(event_type, x, y, focus_on_click) ==
    /\ op' = "mouse_handler"
    /\ IF has_focus
         THEN IF last_get_processed_line.set
                THEN LET index == PositionIndex(x, y)
                     IN  IF event_type = "MOUSE_DOWN"
                           THEN /\ selection_state' = NoSelection      \* exit_selection()
                                /\ cursor_position' = index
                                /\ ret' = RetNone
                                /\ event' = MouseEvent(event_type, x, y, focus_on_click, FALSE)
                                /\ UNCHANGED <<last_click_timestamp, released_at, has_focus>>
                           ELSE IF event_type = "MOUSE_UP"
                             THEN LET moved == CursorMoved(cursor_position, index)
                                      selected == IF moved THEN SelectionState(cursor_position)
                                                  ELSE selection_state
                                      cursor == IF moved THEN index ELSE cursor_position
                                      double_click == IsDoubleClick(last_click_timestamp, now)
                                      bounds == find_boundaries_of_current_word(buffer_text, cursor)
                                  IN  /\ last_click_timestamp' = now
                                      /\ released_at' = now
                                      /\ IF double_click
                                           THEN /\ selection_state' = SelectionState(cursor + bounds[1])
                                                /\ cursor_position' = cursor + bounds[1] + (bounds[2] - bounds[1])
                                           ELSE /\ selection_state' = selected
                                                /\ cursor_position' = cursor
                                      /\ ret' = RetNone
                                      /\ event' = MouseEvent(event_type, x, y, focus_on_click, double_click)
                                      /\ UNCHANGED has_focus
                             ELSE \* "Don't handle scroll events here."
                                  /\ ret' = RetNotImplemented
                                  /\ event' = MouseEvent(event_type, x, y, focus_on_click, FALSE)
                                  /\ UNCHANGED <<cursor_position, selection_state,
                                                 last_click_timestamp, released_at, has_focus>>
                ELSE /\ ret' = RetNone
                     /\ event' = MouseEvent(event_type, x, y, focus_on_click, FALSE)
                     /\ UNCHANGED <<cursor_position, selection_state,
                                    last_click_timestamp, released_at, has_focus>>
         ELSE /\ IF ClaimsFocus(focus_on_click, event_type)
                   THEN /\ has_focus' = TRUE
                        /\ ret' = RetNone
                   ELSE /\ has_focus' = has_focus
                        /\ ret' = RetNotImplemented
              /\ event' = MouseEvent(event_type, x, y, focus_on_click, FALSE)
              /\ UNCHANGED <<cursor_position, selection_state,
                             last_click_timestamp, released_at>>
    /\ memo' = IF has_focus /\ last_get_processed_line.set THEN RequestLine(memo, y)
               ELSE memo
    /\ UNCHANGED <<ui_vars, render_call, line_cache, asked, invalidation_hash, lexer_used,
                   static_vars, buffer_text, input_processors,
                   last_get_processed_line, fragment_cache, now>>

\* Mouse positions: the columns and rows of the rendered document, and one
\* beyond. Only a focused control that has been rendered reads the position.
Columns == IF has_focus /\ last_get_processed_line.set
           THEN 0..(Len(buffer_text) + input_processors) ELSE {0}

Rows == IF has_focus /\ last_get_processed_line.set
        THEN 0..(Len(DocLines(buffer_text)) - 1) ELSE {0}

\* The values of the focus_on_click filter: only a control without the focus
\* evaluates it.
FocusOnClick == IF has_focus THEN {FALSE} ELSE BOOLEAN

NextBuffer ==
    \/ Tick
    \/ FocusChange
    \/ CreateContent
    \/ \E e \in MouseEventTypes, x \in Columns, y \in Rows, f \in FocusOnClick :
          MouseHandler(e, x, y, f)

SpecBuffer == InitBuffer /\ [][NextBuffer]_vars

\* Document.get_cursor_down_position() and get_cursor_up_position(): the
\* relative offset of the cursor's column in the next, in the previous line.
get_cursor_down_position(t, c) ==
    LET position == translate_index_to_position(t, c)
    IN  translate_row_col_to_index(t, position[1] + 1, position[2]) - c

get_cursor_up_position(t, c) ==
    LET position == translate_index_to_position(t, c)
    IN  translate_row_col_to_index(t, Max(0, position[1] - 1), position[2]) - c

\* BufferControl.move_cursor_down()
MoveCursorDown ==
    /\ cursor_position' = cursor_position + get_cursor_down_position(buffer_text, cursor_position)
    /\ op' = "move_cursor_down"
    /\ ret' = RetNone
    /\ UNCHANGED <<ui_vars, render_vars, static_vars, buffer_text, selection_state,
                   input_processors, has_focus, last_get_processed_line, fragment_cache,
                   last_click_timestamp, now, released_at, event>>

\* BufferControl.move_cursor_up()
MoveCursorUp ==
    /\ cursor_position' = cursor_position + get_cursor_up_position(buffer_text, cursor_position)
    /\ op' = "move_cursor_up"
    /\ ret' = RetNone
    /\ UNCHANGED <<ui_vars, render_vars, static_vars, buffer_text, selection_state,
                   input_processors, has_focus, last_get_processed_line, fragment_cache,
                   last_click_timestamp, now, released_at, event>>

\* Mouse events and key bindings that move the cursor, all within one tick
\* of the clock.
NextMove ==
    \/ FocusChange
    \/ CreateContent
    \/ \E e \in MouseEventTypes, x \in Columns, y \in Rows, f \in FocusOnClick :
          MouseHandler(e, x, y, f)
    \/ MoveCursorDown
    \/ MoveCursorUp

SpecMove == InitBuffer /\ [][NextMove]_vars

(***************************************************************************)
(* BufferControl: what is rendered. get_line is the one of the Content     *)
(* made last.                                                              *)
(***************************************************************************)
\* The cell for the cursor position after the last character.
TrailingSpace == << <<"", <<" ">>>> >>

MemoAfterGetLine_InPlace(i) == [line_cache EXCEPT ![i + 1] = @ \o TrailingSpace]

\* The memoized lines after get_line(i): `fragments + [('', ' ')]` makes a new
\* list.
MemoAfterGetLine(i) == line_cache

\* get_line(i) of the Content, for a line of the document.
GetLine(i) ==
    /\ last_get_processed_line.set
    /\ i < Len(line_cache)
    /\ op' = "get_line"
    /\ ret' = RetLine(line_cache[i + 1] \o TrailingSpace)
    /\ line_cache' = MemoAfterGetLine(i)
    /\ asked' = [set |-> TRUE, i |-> i,
                 n |-> IF asked.set /\ asked.i = i THEN Min(asked.n + 1, MaxCalls) ELSE 1]
    /\ memo' = RequestLine(memo, i)
    /\ UNCHANGED <<ui_vars, static_vars, buffer_vars, render_call, invalidation_hash,
                   lexer_used>>

\* The call does not return.
NoReturn == [kind |-> "no return", int |-> 0, val |-> <<>>]

RECURSIVE Wrapping(_, _, _, _)
\* `while text_width > width` of get_height_for_line, text_width being tw, for
\* a continuation prefix of width prefix_width. With prefix_width = w every
\* turn leaves text_width as it was and the loop has no end.
Wrapping(tw, w, prefix_width, h) ==
    IF tw <= w THEN RetInt(h)
    ELSE IF PrefixDoesNotFit(prefix_width, w) THEN RetInt(HeightIfPrefixDoesNotFit(h))
    ELSE IF tw - w + prefix_width >= tw THEN NoReturn
    ELSE Wrapping(tw - w + prefix_width, w, prefix_width, h + 1)

\* content.get_height_for_line(i, width, get_line_prefix) on a new Content (no
\* height is cached yet), for the line's fragments.
LineHeight(fragments, i, w, f) ==
    IF w = 0 THEN RetInt(Sentinel)
    ELSE Wrapping(get_cwidth(fragment_list_to_text(fragments \o TrailingSpace))
                      + get_cwidth(fragment_list_to_text(CallPrefix(f, w, i, FALSE))),
                  w, get_cwidth(fragment_list_to_text(CallPrefix(f, w, i, TRUE))), 1)

RECURSIVE HeightSum(_, _, _, _, _, _)
\* The loop of preferred_height from line i on, `height` being sum: what is
\* returned, and how many lines were read through get_line.
HeightSum(lines, i, w, f, max_available_height, sum) ==
    IF i >= Len(lines) THEN [ret |-> RetInt(sum), read |-> IF w = 0 THEN 0 ELSE i]
    ELSE LET line == LineHeight(lines[i + 1], i, w, f)
             read == IF w = 0 THEN 0 ELSE i + 1
         IN  IF line.kind # "int" THEN [ret |-> NoReturn, read |-> read]
             ELSE IF sum + line.int >= max_available_height
               THEN [ret |-> RetInt(max_available_height), read |-> read]
             ELSE HeightSum(lines, i + 1, w, f, max_available_height, sum + line.int)

\* BufferControl.preferred_height(width, max_available_height, wrap_lines,
\* get_line_prefix): create_content(width, None) and the heights of its lines.
BufferPreferredHeight(w, max_available_height, wrap_lines, f) ==
    LET call == [render_call EXCEPT !.preview_search = FALSE]
        lines == ProcessedLines(RenderedDocument(call)[1])
        result == IF ~wrap_lines THEN [ret |-> RetInt(Len(lines)), read |-> 0]
                  ELSE IF Len(lines) >= max_available_height
                    THEN [ret |-> RetInt(max_available_height), read |-> 0]
                  ELSE HeightSum(lines, 0, w, f, max_available_height, 0)
    IN  /\ ret.kind # "no return"
        /\ Render(call, result.read)
        /\ op' = "preferred_height"
        /\ ret' = result.ret

\* The application changes one of the things create_content reads.
Application(call) ==
    /\ render_call' = call
    /\ op' = "application"
    /\ ret' = RetNone
    /\ event' = NoEvent
    /\ UNCHANGED <<ui_vars, static_vars, buffer_text, cursor_position, selection_state,
                   input_processors, has_focus, last_get_processed_line, fragment_cache,
                   last_click_timestamp, now, released_at, line_cache, asked, memo,
                   invalidation_hash, lexer_used>>

ApplicationChanges ==
    {[render_call EXCEPT !.preview_filter = ~@],
     [render_call EXCEPT !.is_search_target = ~@]}
    \cup {[render_call EXCEPT !.search_attached = s.attached, !.search_text = s.text,
                              !.direction = s.direction] : s \in SearchFields}
    \cup {[render_call EXCEPT !.menu_position = m] : m \in MenuCallbacks}
    \cup {[render_call EXCEPT !.complete_state = c] : c \in CompleteStates}

\* The documents rendered.
RenderTexts == SeqsUpTo({"a", "\n"}, MaxDocLen)

InitRender ==
    /\ ContentUnused
    /\ StaticUnused
    /\ RenderUnused
    /\ op = "init"
    /\ ret = RetNone
    /\ buffer_text \in RenderTexts
    /\ cursor_position \in 0..Len(buffer_text)
    /\ selection_state \in {NoSelection, SelectionState(0)}
    /\ input_processors = MaxShift
    /\ has_focus = FALSE
    /\ last_get_processed_line = NoProcessedLine
    /\ fragment_cache = <<>>
    /\ last_click_timestamp = NoTimestamp
    /\ now = 1
    /\ released_at = NoTimestamp
    /\ event = NoEvent

\* The heights the host has room for.
AvailableHeights == {1, MaxDocLen + 2}

NextRender ==
    \/ FocusChange
    \/ \E call \in ApplicationChanges : Application(call)
    \/ \E preview_search \in BOOLEAN : CreateContentWith(preview_search)
    \/ \E w \in 1..MaxWidth, m \in AvailableHeights, wrap \in BOOLEAN :
          BufferPreferredHeight(w, m, wrap, NoPrefix)

SpecRender == InitRender /\ [][NextRender]_vars

\* A Content is made and its lines are read.
NextLines ==
    \/ \E preview_search \in BOOLEAN : CreateContentWith(preview_search)
    \/ \E i \in 0..MaxDocLen : GetLine(i)

SpecLines == InitRender /\ [][NextLines]_vars

\* The lines of a Content are asked for in every way: by create_content for
\* the cursor and the menu, by get_line, by preferred_height and by the mouse
\* handler.
NextMemo ==
    \/ FocusChange
    \/ \E m \in MenuCallbacks : Application([render_call EXCEPT !.menu_position = m])
    \/ CreateContent
    \/ \E i \in 0..MaxDocLen : GetLine(i)
    \/ \E m \in AvailableHeights : BufferPreferredHeight(MaxWidth, m, TRUE, NoPrefix)
    \/ \E x \in Columns, y \in Rows, f \in FocusOnClick : MouseHandler("MOUSE_DOWN", x, y, f)

SpecMemo == InitRender /\ [][NextMemo]_vars

\* The heights preferred_height is offered.
OfferedHeights == 0..(MaxDocLen + 3)

\* preferred_height is called with every width, available height and prefix
\* function; after a call that does not return nothing more happens.
NextHeights ==
    \E w \in Widths, m \in OfferedHeights, wrap \in BOOLEAN, f \in PrefixFuncs :
        BufferPreferredHeight(w, m, wrap, f)

SpecHeights == InitRender /\ [][NextHeights]_vars

\* The texts the document is given.
LexerTexts == {<<"a">>, <<"a", "\n">>, <<"\n", "a">>}

\* buffer.text = t: the cursor stays inside the text and the selection ends.
\* The function create_content kept is the one of the document before.
EditDocument(t) ==
    /\ t # buffer_text
    /\ buffer_text' = t
    /\ cursor_position' = Min(cursor_position, Len(t))
    /\ selection_state' = NoSelection
    /\ op' = "edit"
    /\ ret' = RetNone
    /\ event' = NoEvent
    /\ UNCHANGED <<ui_vars, static_vars, render_vars, input_processors, has_focus,
                   last_get_processed_line, fragment_cache, last_click_timestamp, now,
                   released_at>>

\* The lexer changes so that invalidation_hash() returns h.
InvalidateLexer(h) ==
    /\ h # invalidation_hash
    /\ invalidation_hash' = h
    /\ op' = "invalidate"
    /\ ret' = RetNone
    /\ event' = NoEvent
    /\ UNCHANGED <<ui_vars, static_vars, buffer_text, cursor_position, selection_state,
                   input_processors, has_focus, last_get_processed_line, fragment_cache,
                   last_click_timestamp, now, released_at, render_call, line_cache,
                   asked, memo, lexer_used>>

InitLexer ==
    /\ ContentUnused
    /\ StaticUnused
    /\ RenderUnused
    /\ op = "init"
    /\ ret = RetNone
    /\ buffer_text \in LexerTexts
    /\ cursor_position = 0
    /\ selection_state = NoSelection
    /\ input_processors = 0
    /\ has_focus = FALSE
    /\ last_get_processed_line = NoProcessedLine
    /\ fragment_cache = <<>>
    /\ last_click_timestamp = NoTimestamp
    /\ now = 1
    /\ released_at = NoTimestamp
    /\ event = NoEvent

\* The document is edited, the lexer changes, and the control is rendered.
NextLexer ==
    \/ \E t \in LexerTexts : EditDocument(t)
    \/ \E h \in 0..MaxToken : InvalidateLexer(h)
    \/ CreateContent
    \/ BufferPreferredHeight(MaxWidth, MaxDocLen + 2, TRUE, NoPrefix)

SpecLexer == InitLexer /\ [][NextLexer]_vars

(***************************************************************************)
(* FormattedTextControl. A fragment is <<style, text, handler>>, with the   *)
(* handler "" for a (style, text) pair.                                    *)
(***************************************************************************)
Handlers == {"", "h1", "h2"}

\* What a click handler returns: h1 handles the event, h2 does not.
HandlerResult(h) == IF h = "h1" THEN RetNone ELSE RetNotImplemented

StaticFragmentSet ==
    {<<"", t, h>> : t \in SeqsUpTo({"a", "\n"}, MaxFragLen), h \in Handlers}

StaticTexts == SeqsUpTo(StaticFragmentSet, MaxFragments)

\* Values the application gives the text later.
LaterTexts == {<<>>, << <<"", <<"a">>, "h2">> >>}

\* The width the host asks a content for.
ContentWidths == {MaxWidth}

\* to_formatted_text(value, style) of a fragment list: the style goes before
\* each fragment's own (empty) style.
to_formatted_text_styled(value, style) ==
    [i \in 1..Len(value) |->
        << IF style = "" THEN value[i][1] ELSE style, value[i][2], value[i][3] >>]

RECURSIVE SplitItem(_, _, _, _, _)
\* split_lines on one fragment: <<lines finished, line being filled>>. A part
\* before a line break is added when not empty, the last part always.
SplitItem(item, string, done, line, part) ==
    IF string = <<>> THEN <<done, Append(line, <<item[1], part, item[3]>>)>>
    ELSE IF Head(string) = "\n"
      THEN SplitItem(item, Tail(string),
                     Append(done, IF part = <<>> THEN line
                                  ELSE Append(line, <<item[1], part, item[3]>>)),
                     <<>>, <<>>)
      ELSE SplitItem(item, Tail(string), done, line, Append(part, Head(string)))

RECURSIVE SplitLines(_, _, _)
SplitLines(fragments, done, line) ==
    IF fragments = <<>> THEN Append(done, line)
    ELSE LET r == SplitItem(Head(fragments), Head(fragments)[2], done, line, <<>>)
         IN  SplitLines(Tail(fragments), r[1], r[2])

\* formatted_text.utils.split_lines
split_lines(fragments) == SplitLines(fragments, <<>>, <<>>)

\* "Strip mouse handlers from fragments."
StripHandlers(lines) ==
    [i \in 1..Len(lines) |-> [j \in 1..Len(lines[i]) |-> <<lines[i][j][1], lines[i][j][2]>>]]

FragmentCacheHit_AnyKey == static_fragment_cache.set

\* _fragment_cache, a SimpleCache(maxsize=1), has the render_counter as key.
FragmentCacheHit ==
    static_fragment_cache.set /\ static_fragment_cache.key = render_counter

\* FormattedTextControl._get_formatted_text_cached(): its result,
FormattedTextCached ==
    IF FragmentCacheHit THEN static_fragment_cache.value
    ELSE to_formatted_text_styled(static_text, static_style)

\* and what it does.
GetFormattedTextCached ==
    /\ static_fragment_cache' =
          [set |-> TRUE, key |-> render_counter, value |-> FormattedTextCached]
    /\ conversions' =
          IF FragmentCacheHit THEN conversions
          ELSE [conversions EXCEPT ![render_counter] = Min(@ + 1, MaxConversions)]
    /\ seen' = FormattedTextCached
    /\ generation_first' =
          IF generation_first.set /\ generation_first.generation = render_counter
            THEN generation_first
            ELSE [set |-> TRUE, generation |-> render_counter,
                  fragments |-> FormattedTextCached, text |-> static_text]

InitStatic ==
    /\ ContentUnused
    /\ BufferUnused
    /\ op = "init"
    /\ ret = RetNone
    /\ static_text \in StaticTexts
    /\ static_style \in {"", "class:s"}
    /\ static_fragment_cache = NoFragmentCache
    /\ static_content_cache = {}
    /\ static_fragments = NoFragments
    /\ conversions = [g \in 0..MaxGen |-> 0]
    /\ generation_first = NoFirstCall
    /\ seen = <<>>
    /\ last_render = "never"
    /\ click = NoClick

\* The application gives the control another text.
SetText(t) ==
    /\ static_text' = t
    /\ op' = "set_text"
    /\ ret' = RetNone
    /\ click' = NoClick
    /\ UNCHANGED <<ui_vars, buffer_vars, render_vars, static_style, static_fragment_cache,
                   static_content_cache, static_fragments, conversions,
                   generation_first, seen, last_render>>

RECURSIVE MaxWidthOf(_)
MaxWidthOf(lines) ==
    IF lines = <<>> THEN 0 ELSE Max(get_cwidth(Head(lines)), MaxWidthOf(Tail(lines)))

\* FormattedTextControl.preferred_width(max_available_width)
StaticPreferredWidth ==
    /\ GetFormattedTextCached
    /\ op' = "text_preferred_width"
    /\ ret' = RetInt(MaxWidthOf(SplitText(fragment_list_to_text(FormattedTextCached),
                                          <<>>, <<>>)))
    /\ click' = NoClick
    /\ UNCHANGED <<ui_vars, buffer_vars, render_vars, static_text, static_style,
                   static_content_cache, static_fragments, last_render>>

\* The body of FormattedTextControl.create_content(width, height).
StaticContent(w) ==
    /\ GetFormattedTextCached
    /\ static_fragments' = [set |-> TRUE, value |-> FormattedTextCached]
    /\ static_content_cache' = static_content_cache \cup {<<FormattedTextCached, w>>}
    /\ last_render' = "created"
    /\ click' = NoClick
    /\ UNCHANGED <<ui_vars, buffer_vars, render_vars, static_text, static_style>>

\* FormattedTextControl.create_content(width, height)
StaticCreateContent(w) ==
    /\ StaticContent(w)
    /\ op' = "text_create_content"
    /\ ret' = RetContent(Len(split_lines(FormattedTextCached)), <<>>, <<>>,
                         StripHandlers(split_lines(FormattedTextCached)))

\* FormattedTextControl.preferred_height(width, ...): the line_count of
\* create_content(width, None).
StaticPreferredHeight(w) ==
    /\ StaticContent(w)
    /\ op' = "text_preferred_height"
    /\ ret' = RetInt(Len(split_lines(FormattedTextCached)))

StaticReset_NoOp ==
    /\ op' = "text_reset"
    /\ ret' = RetNone
    /\ last_render' = IF last_render = "never" THEN "never" ELSE "reset"
    /\ click' = NoClick
    /\ UNCHANGED <<ui_vars, buffer_vars, render_vars, static_text, static_style,
                   static_fragment_cache, static_content_cache, static_fragments,
                   conversions, generation_first, seen>>

\* FormattedTextControl.reset()
StaticReset ==
    /\ static_fragments' = NoFragments
    /\ op' = "text_reset"
    /\ ret' = RetNone
    /\ last_render' = IF last_render = "never" THEN "never" ELSE "reset"
    /\ click' = NoClick
    /\ UNCHANGED <<ui_vars, buffer_vars, render_vars, static_text, static_style,
                   static_fragment_cache, static_content_cache, conversions,
                   generation_first, seen>>

\* "Find mouse handler for this character": the test on the running count.
ClickReaches(count, xpos) == count >= xpos

RECURSIVE FindHandler(_, _, _)
\* The loop over the fragments of the line: the handler called, "" for none.
FindHandler(fragments, count, xpos) ==
    IF fragments = <<>> THEN ""
    ELSE IF ClickReaches(count + Len(Head(fragments)[2]), xpos) THEN Head(fragments)[3]
    ELSE FindHandler(Tail(fragments), count + Len(Head(fragments)[2]), xpos)

\* FormattedTextControl.mouse_handler(mouse_event); the event type is not read.
StaticMouseHandler(x, y) ==
    /\ op' = "text_mouse_handler"
    /\ LET lines == split_lines(static_fragments.value)
           handler == IF static_fragments.set /\ static_fragments.value # <<>>
                         /\ y < Len(lines)
                      THEN FindHandler(lines[y + 1], 0, x) ELSE ""
       IN  /\ click' = [x |-> x, y |-> y,
                        handlers |-> IF handler = "" THEN <<>> ELSE <<handler>>]
           /\ ret' = IF handler = "" THEN RetNotImplemented ELSE HandlerResult(handler)
    /\ UNCHANGED <<ui_vars, buffer_vars, render_vars, static_text, static_style,
                   static_fragment_cache, static_content_cache, static_fragments,
                   conversions, generation_first, seen, last_render>>

\* Mouse positions on a text of MaxFragments fragments, and beyond.
StaticColumns == 0..(MaxFragments * MaxFragLen + 1)

StaticRows == 0..(MaxFragments * MaxFragLen + 1)

NextStatic ==
    \/ NewRender
    \/ \E t \in LaterTexts : SetText(t)
    \/ StaticPreferredWidth
    \/ \E w \in ContentWidths : StaticCreateContent(w)
    \/ \E w \in ContentWidths : StaticPreferredHeight(w)
    \/ StaticReset
    \/ \E x \in StaticColumns, y \in StaticRows : StaticMouseHandler(x, y)

SpecStatic == InitStatic /\ [][NextStatic]_vars

(***************************************************************************)
(* Properties of UIContent.                                                *)
(***************************************************************************)
\* A get_height_for_line call has returned.
Returned == pc = "done" /\ op = "get_height_for_line"

\* The smallest n with n * k >= w, for k > 0.
Ceil(w, k) == CHOOSE n \in 0..w : n * k >= w /\ (n = 0 \/ (n - 1) * k < w)

\* Display width of line l of the Content.
WidthOfLine(l) == get_cwidth(fragment_list_to_text(fragment_lines[l + 1]))

\* Display widths of the prefix a prefix function gives.
FirstPrefixWidth(f) == IF f.given THEN get_cwidth(f.first) ELSE 0

ContPrefixWidth(f) == IF f.given THEN get_cwidth(f.cont) ELSE 0

\* The prefix function is absent or always gives the empty prefix.
NoLinePrefix(f) == FirstPrefixWidth(f) = 0 /\ ContPrefixWidth(f) = 0

\* No height: the computation does not end.
Diverges == 0 - 1

RECURSIVE Wrap(_, _, _, _)
\* Rows of a text of width tw (first prefix included) wrapped at width w > 0
\* under a continuation prefix of width c, counted from h.
Wrap(tw, w, c, h) ==
    IF tw <= w THEN h
    ELSE IF c > w THEN Sentinel
    ELSE IF c = w THEN Diverges
    ELSE Wrap(tw - w + c, w, c, h + 1)

\* What get_height_for_line computes for line l at width w under prefix
\* function f when nothing is cached.
Uncached(l, w, f) ==
    IF w = 0 THEN Sentinel
    ELSE Wrap(WidthOfLine(l) + FirstPrefixWidth(f), w, ContPrefixWidth(f), 1)

\* The height returned was computed by this call, or cached by a call with the
\* same prefix function.
SamePrefix == cached => stored_with[key] = get_line_prefix

\* C1 as claimed: within one render generation every get_height_for_line call
\* returns the height an uncached computation with the same line, width and
\* prefix function returns, whether it is served from the cache or computed.
C1_AnyPrefixSequence ==
    Returned => ret = RetInt(Uncached(lineno, width, get_line_prefix))

\* C1: within one render generation a get_height_for_line call returns the
\* height an uncached computation with the same line, width and prefix function
\* returns, whether computed or served from the cache, when the cached height
\* was stored by a call with the same prefix function.
C1_CachedEqualsUncached ==
    Returned /\ SamePrefix => ret = RetInt(Uncached(lineno, width, get_line_prefix))

C1_Witness ==
    /\ Returned
    /\ cached
    /\ stored_with[key] = get_line_prefix
    /\ get_line_prefix.given
    /\ ret = RetInt(Uncached(lineno, width, get_line_prefix))
    /\ ret.int > 1

C3_HeightForText ==
    op = "get_height_for_text" /\ width > 0
        => /\ ret = RetInt(Max(1, Ceil(get_cwidth(text), width)))
           /\ (text = <<>> => ret = RetInt(1))

C3_Witness ==
    /\ op = "get_height_for_text"
    /\ width > 1
    /\ get_cwidth(text) > width
    /\ get_cwidth(text) % width # 0
    /\ ret = RetInt(Ceil(get_cwidth(text), width))

\* C4: every get_height_for_line call that starts computing returns.
C4_Terminates == (pc \in {"loop", "store"}) ~> (pc = "done")

\* C5: with width 0, get_height_for_line (any line, any prefix function) and
\* get_height_for_text (any text) return the sentinel 10**8 and do not raise.
C5_ZeroWidth ==
    /\ Returned /\ width = 0 => ret = RetInt(Sentinel)
    /\ op = "get_height_for_line" /\ width = 0 => pc \in {"store", "done"}
    /\ \A t \in LineTexts : get_height_for_text(t, 0) = RetInt(Sentinel)

C5_Witness ==
    /\ Returned
    /\ width = 0
    /\ get_line_prefix.given
    /\ ret = RetInt(Sentinel)

\* The line with its first-row prefix does not fit in one row and the
\* continuation prefix is wider than the width.
PrefixTooWide ==
    /\ width > 0
    /\ WidthOfLine(lineno) + FirstPrefixWidth(get_line_prefix) > width
    /\ ContPrefixWidth(get_line_prefix) > width

\* C6 as claimed: such a call always returns the sentinel 10**8.
C6_AlwaysSentinel == Returned /\ PrefixTooWide => ret = RetInt(Sentinel)

\* C6: such a call returns the sentinel 10**8 when the height is computed or
\* was cached by a call with the same prefix function.
C6_SentinelWhenComputed ==
    Returned /\ PrefixTooWide /\ SamePrefix => ret = RetInt(Sentinel)

C6_Witness ==
    /\ Returned
    /\ ~cached
    /\ PrefixTooWide
    /\ ret = RetInt(Sentinel)

\* C7: indexing a Content with lineno >= line_count raises IndexError without
\* calling get_line; with 0 <= lineno < line_count it returns get_line(lineno).
C7_GetItem ==
    op = "getitem" =>
        /\ lineno >= line_count
              => ret = Raise("IndexError") /\ get_line_log = <<>>
        /\ 0 <= lineno /\ lineno < line_count
              => ret = RetLine(fragment_lines[lineno + 1]) /\ get_line_log = <<lineno>>

C7_Witness ==
    /\ op = "getitem"
    /\ line_count > 0
    /\ lineno >= line_count
    /\ ret = Raise("IndexError")
    /\ get_line_log = <<>>

\* The plain text of line l of the Content.
TextOfLine(l) == fragment_list_to_text(fragment_lines[l + 1])

\* C26 as claimed: for every line and width > 0, get_height_for_line without
\* prefix returns what get_height_for_text returns for the line's text at that
\* width, and both are at least 1.
C26_LineEqualsText ==
    /\ Returned /\ width > 0 /\ ~get_line_prefix.given
          => ret = get_height_for_text(TextOfLine(lineno), width) /\ ret.int >= 1
    /\ \A t \in LineTexts, w \in 1..MaxWidth : get_height_for_text(t, w).int >= 1

\* C26: for every line and width > 0, get_height_for_line without prefix
\* returns what get_height_for_text returns for the line's text at that width,
\* when the height is computed or was cached by a call without line prefix;
\* both are at least 1.
C26_LineEqualsTextWhenComputed ==
    /\ Returned /\ width > 0 /\ ~get_line_prefix.given
          /\ (cached => NoLinePrefix(stored_with[key]))
          => ret = get_height_for_text(TextOfLine(lineno), width) /\ ret.int >= 1
    /\ \A t \in LineTexts, w \in 1..MaxWidth : get_height_for_text(t, w).int >= 1

C26_Witness ==
    /\ Returned
    /\ ~cached
    /\ width > 0
    /\ ~get_line_prefix.given
    /\ \E i \in 1..Len(TextOfLine(lineno)) : TextOfLine(lineno)[i] = "W"
    /\ ret = get_height_for_text(TextOfLine(lineno), width)
    /\ ret.int > 1

\* C27: indexing a Content with a negative line index raises an error and does
\* not call get_line.
C27_NegativeIndex ==
    op = "getitem" /\ lineno < 0
        => ret.kind \notin {"line", "None"} /\ get_line_log = <<>>

(***************************************************************************)
(* Properties of BufferControl.mouse_handler.                              *)
(***************************************************************************)
\* The control has rendered content.
Rendered == last_get_processed_line.set

\* Row and column of document offset o: the line breaks before it, and the
\* characters since the last of them.
RowOf(t, o) == Cardinality({i \in 1..o : t[i] = "\n"})

ColOf(t, o) ==
    LET breaks == {0} \cup {i \in 1..o : t[i] = "\n"}
    IN  o - (CHOOSE i \in breaks : \A j \in breaks : j <= i)

OffsetsOfRow(t, r) == {o \in 0..Len(t) : RowOf(t, o) = r}

\* The document offset of a row and a column: a row after the last one is the
\* last one, a column outside the row is its nearest end.
OffsetAt(t, row, col) ==
    LET r == Min(row, RowOf(t, Len(t)))
        c == Max(0, Min(col, Cardinality(OffsetsOfRow(t, r)) - 1))
    IN  CHOOSE o \in OffsetsOfRow(t, r) : ColOf(t, o) = c

\* Display position (x, y) shows a character of the document.
OnCharacter(t, x, y) ==
    \E o \in 0..(Len(t) - 1) : RowOf(t, o) = y /\ ColOf(t, o) = x /\ t[o + 1] # "\n"

\* The offset a mouse event points at.
EventOffset(e) == OffsetAt(buffer_text, e.y, display_to_source(e.x))

\* The handler has run for a press, a release, on a focused control with
\* rendered content.
Pressed == op = "mouse_handler" /\ event.event_type = "MOUSE_DOWN" /\ event.focused /\ Rendered

Released == op = "mouse_handler" /\ event.event_type = "MOUSE_UP" /\ event.focused /\ Rendered

\* This step is a call of the handler.
HandlerStep == op' = "mouse_handler" /\ now' = now

\* C8: on a focused control with rendered content a PRESS at display (x, y)
\* leaves no selection and the cursor at the document offset of row y and
\* column display_to_source(x); with an identity pipeline a press on the
\* rendered character at column x of row y puts the cursor on that character.
C8_Press ==
    Pressed =>
        /\ selection_state = NoSelection
        /\ cursor_position = EventOffset(event)
        /\ (input_processors = 0 /\ OnCharacter(buffer_text, event.x, event.y)
              => /\ RowOf(buffer_text, cursor_position) = event.y
                 /\ ColOf(buffer_text, cursor_position) = event.x
                 /\ cursor_position < Len(buffer_text))

C8_Witness ==
    /\ Pressed
    /\ input_processors = 1
    /\ event.x = 2
    /\ event.y = 1
    /\ cursor_position = Len(buffer_text)
    /\ Len(buffer_text) = 2

\* The release before this one was less than the double click time ago.
QuickRelease == released_at # NoTimestamp /\ now - released_at < DoubleClickTicks

\* C9: on a focused control a PRESS at offset a immediately followed by a
\* RELEASE at offset b with |a - b| > 1, no double click, ends with a character
\* selection anchored at a and the cursor at b.
C9_Drag ==
    [][ /\ Pressed
        /\ has_focus
        /\ HandlerStep
        /\ event'.event_type = "MOUSE_UP"
        /\ Abs(EventOffset(event) - EventOffset(event')) > 1
        /\ ~QuickRelease
        => /\ selection_state' = SelectionState(EventOffset(event))
           /\ cursor_position' = EventOffset(event') ]_vars

C9_Witness ==
    /\ Released
    /\ event.after_press
    /\ ~event.double_click
    /\ selection_state = SelectionState(0)
    /\ cursor_position = 2
    /\ EventOffset(event) = 2

\* The characters of t around its i-th that are of the same class as the i-th:
\* <<start, end>> as offsets.
SameRun(t, i) ==
    LET same(k) == CharClass(t[k]) = CharClass(t[i])
        starts == {s \in 0..(i - 1) : \A k \in (s + 1)..i : same(k)}
        ends == {e \in i..Len(t) : \A k \in i..e : same(k)}
    IN  << CHOOSE s \in starts : \A u \in starts : s <= u,
           CHOOSE e \in ends : \A u \in ends : u <= e >>

\* The word around offset c: the one that starts at or spans c, else the one
\* that ends at c, else nothing.
WordSpan(t, c) ==
    IF c < Len(t) /\ ~IsSpace(t[c + 1]) THEN SameRun(t, c + 1)
    ELSE IF c > 0 /\ ~IsSpace(t[c]) THEN SameRun(t, c)
    ELSE <<c, c>>

\* C10: on a focused control with rendered content a RELEASE less than the
\* double click time after the previous RELEASE ends with the selection on the
\* boundaries of the word around the cursor; the first RELEASE, and one that
\* comes later than that, expands nothing.
C10_DoubleClick ==
    [][ /\ has_focus
        /\ Rendered
        /\ HandlerStep
        /\ event'.event_type = "MOUSE_UP"
        => LET b == EventOffset(event')
               drag == Abs(cursor_position - b) > 1
               c == IF drag THEN b ELSE cursor_position
           IN  IF QuickRelease
                 THEN /\ selection_state' = SelectionState(WordSpan(buffer_text, c)[1])
                      /\ cursor_position' = WordSpan(buffer_text, c)[2]
                 ELSE /\ cursor_position' = c
                      /\ selection_state' = IF drag THEN SelectionState(cursor_position)
                                            ELSE selection_state ]_vars

C10_Witness ==
    /\ Released
    /\ event.double_click
    /\ now - released_at = 0
    /\ selection_state = SelectionState(0)
    /\ cursor_position = 2
    /\ buffer_text = <<"a", "a">>

\* The last mouse event was a press on the focused, rendered control, and
\* nothing but cursor movement and time came after it.
PressPending ==
    /\ event.event_type = "MOUSE_DOWN"
    /\ event.focused
    /\ Rendered
    /\ has_focus

\* C21: the selection a RELEASE starts is anchored at the offset of the most
\* recent PRESS and is started when the release offset differs from that press
\* offset by more than 1, also when move_cursor_up or move_cursor_down moved
\* the cursor in between (no double click).
C21_AnchoredAtPress ==
    [][ /\ PressPending
        /\ HandlerStep
        /\ event'.event_type = "MOUSE_UP"
        /\ ~QuickRelease
        => IF Abs(EventOffset(event) - EventOffset(event')) > 1
             THEN /\ selection_state' = SelectionState(EventOffset(event))
                  /\ cursor_position' = EventOffset(event')
             ELSE selection_state' = selection_state ]_vars

\* C22: on a focused control with rendered content a RELEASE at an offset that
\* differs from the buffer's cursor position by at most 1, no double click,
\* leaves the cursor position and the selection as they are.
C22_SmallRelease ==
    [][ /\ has_focus
        /\ Rendered
        /\ HandlerStep
        /\ event'.event_type = "MOUSE_UP"
        /\ Abs(cursor_position - EventOffset(event')) <= 1
        /\ ~QuickRelease
        => UNCHANGED <<cursor_position, selection_state>> ]_vars

C22_Witness ==
    /\ Released
    /\ ~event.double_click
    /\ ~event.after_press
    /\ Abs(cursor_position - EventOffset(event)) = 1
    /\ selection_state = SelectionState(0)
    /\ cursor_position = 2

\* Mouse events that are neither a press nor a release.
ScrollEvents == {"SCROLL_UP", "SCROLL_DOWN"}

\* C11: on a focused control a mouse event that is neither PRESS nor RELEASE
\* returns NotImplemented and leaves the cursor, the selection and the
\* remembered time of the last release as they were.
C11_ScrollNotHandled ==
    [][ /\ has_focus
        /\ HandlerStep
        /\ event'.event_type \in ScrollEvents
        => /\ ret' = RetNotImplemented
           /\ UNCHANGED <<cursor_position, selection_state, last_click_timestamp>> ]_vars

\* C12: while the control is not the focused one, mouse_handler claims the focus
\* exactly when focus_on_click holds and the event is a RELEASE, returns
\* NotImplemented for every other event, and never changes cursor or selection.
C12_Unfocused ==
    [][ /\ ~has_focus
        /\ HandlerStep
        => /\ has_focus' <=> (event'.focus_on_click /\ event'.event_type = "MOUSE_UP")
           /\ (~has_focus' => ret' = RetNotImplemented)
           /\ UNCHANGED <<cursor_position, selection_state>> ]_vars

C12_Witness ==
    /\ op = "mouse_handler"
    /\ ~event.focused
    /\ event.focus_on_click
    /\ event.event_type = "MOUSE_UP"
    /\ has_focus
    /\ ret = RetNone

\* C13: a mouse event that reaches a focused control before any content has
\* been rendered returns NotImplemented, raises nothing, and leaves the buffer
\* as it was.
C13_NotRendered ==
    [][ /\ has_focus
        /\ ~Rendered
        /\ HandlerStep
        => /\ ret' = RetNotImplemented
           /\ UNCHANGED <<buffer_text, cursor_position, selection_state>> ]_vars

(***************************************************************************)
(* Properties of FormattedTextControl.                                     *)
(***************************************************************************)
StaticClicked == op = "text_mouse_handler"

RECURSIVE CharCells(_)
\* The characters of a fragment list, each with the handler of its fragment.
CharCells(fragments) ==
    IF fragments = <<>> THEN <<>>
    ELSE [i \in 1..Len(Head(fragments)[2]) |-> <<Head(fragments)[2][i], Head(fragments)[3]>>]
         \o CharCells(Tail(fragments))

RECURSIVE CellLines(_, _, _)
\* The cells line by line.
CellLines(cells, done, cur) ==
    IF cells = <<>> THEN Append(done, cur)
    ELSE IF Head(cells)[1] = "\n" THEN CellLines(Tail(cells), Append(done, cur), <<>>)
    ELSE CellLines(Tail(cells), done, Append(cur, Head(cells)))

\* The lines of the fragments rendered last.
RenderedCells == CellLines(CharCells(static_fragments.value), <<>>, <<>>)

\* C14: a mouse event on a FormattedTextControl returns NotImplemented and
\* invokes no click handler when no content was created yet, when reset() was
\* called after the last create_content, or when the event's row is beyond the
\* last rendered line.
C14_NothingRendered ==
    StaticClicked /\ (last_render # "created" \/ click.y >= Len(RenderedCells))
        => ret = RetNotImplemented /\ click.handlers = <<>>

C14_Witness ==
    /\ StaticClicked
    /\ last_render = "reset"
    /\ seen # <<>>
    /\ seen[1][2] = <<"a">>
    /\ seen[1][3] = "h1"
    /\ click.x = 0
    /\ click.y = 0
    /\ ret = RetNotImplemented

\* C16: a click at column x of line y of the rendered fragments invokes the
\* handler of the fragment whose characters are at column x of that line, no
\* other one, and returns its result; NotImplemented when that fragment has no
\* handler.
C16_ClickedFragment ==
    /\ StaticClicked
    /\ last_render = "created"
    /\ click.y < Len(RenderedCells)
    /\ click.x < Len(RenderedCells[click.y + 1])
    => LET handler == RenderedCells[click.y + 1][click.x + 1][2]
       IN  IF handler = ""
             THEN click.handlers = <<>> /\ ret = RetNotImplemented
             ELSE click.handlers = <<handler>> /\ ret = HandlerResult(handler)

StaticCalls == {"text_preferred_width", "text_preferred_height", "text_create_content"}

\* C17: within one render generation the text is converted to fragments at
\* most once and every preferred_width, preferred_height and create_content
\* call works with those fragments; the first call of a generation converts the
\* text as it is then.
C17_OncePerGeneration ==
    /\ \A g \in 0..MaxGen : conversions[g] <= 1
    /\ op \in StaticCalls
         => /\ generation_first.set
            /\ generation_first.generation = render_counter
            /\ conversions[render_counter] = 1
            /\ seen = generation_first.fragments
            /\ generation_first.fragments =
                  to_formatted_text_styled(generation_first.text, static_style)

C17_Witness ==
    /\ op \in StaticCalls
    /\ render_counter = 1
    /\ conversions[0] = 1
    /\ conversions[1] = 1
    /\ static_text # generation_first.text
    /\ static_style # ""
    /\ seen # <<>>

(***************************************************************************)
(* Properties of what a BufferControl renders.                             *)
(***************************************************************************)
Created == op = "create_content"

\* ret is a Content: what it shows, its cursor and menu position.
ContentReturned == Created /\ ret.kind = "UIContent"

ShownDocument == ret.val[3]

\* The four conditions of the search preview, as create_content finds them.
PreviewConditions ==
    /\ render_call.preview_filter
    /\ render_call.search_attached
    /\ render_call.search_text # <<>>
    /\ render_call.is_search_target

RealDocument == <<buffer_text, cursor_position>>

PreviewDocument ==
    <<buffer_text, document_for_search(buffer_text, cursor_position,
                                       render_call.search_text, render_call.direction)>>

\* C15: create_content and preferred_height calls, with the search preview
\* active or not, leave the buffer's text, cursor position and selection
\* unchanged, and a create_content call with the preview off shows the
\* buffer's document.
C15_PreviewLeavesBuffer ==
    [][ op' \in {"create_content", "preferred_height"}
        => /\ UNCHANGED <<buffer_text, cursor_position, selection_state>>
           /\ op' = "create_content" /\ ~render_call'.preview_search
                 /\ ~render_call'.preview_filter
                => /\ ret'.kind = "UIContent"
                   /\ ret'.val[3] = <<buffer_text, cursor_position>> ]_vars

C15_Witness ==
    /\ ContentReturned
    /\ PreviewConditions
    /\ ShownDocument # RealDocument
    /\ selection_state = SelectionState(0)
    /\ cursor_position > 0

\* C18: get_line(i) of a BufferControl's Content returns the processed
\* fragments of line i followed by exactly one ('', ' ') cell, on every call,
\* and the memoized processed lines stay as they were computed.
C18_TrailingSpace ==
    last_get_processed_line.set
        => /\ line_cache = ProcessedLines(last_get_processed_line.document)
           /\ op = "get_line"
                => ret = RetLine(ProcessedFragments(
                                    DocLines(last_get_processed_line.document)[asked.i + 1])
                                 \o << <<"", <<" ">>>> >>)

C18_Witness ==
    /\ op = "get_line"
    /\ asked.n >= 2
    /\ Len(ret.val) = 3
    /\ ret.val[2] = <<"", <<"a">>>>
    /\ ret.val[3] = <<"", <<" ">>>>

\* C19: the Content of a control that is not the focused one has no menu
\* position, whatever the menu_position callback and the completion state.
C19_NoMenuWithoutFocus ==
    ContentReturned /\ ~has_focus => ret.val[2] = <<>>

C19_Witness ==
    /\ ContentReturned
    /\ ~has_focus
    /\ render_call.menu_position.some
    /\ render_call.complete_state.active
    /\ ret.val[2] = <<>>

\* C20, as claimed: create_content renders the search-preview document if and
\* only if the preview is enabled, a search field is attached, its text is not
\* empty and this control is the search target; else the buffer's document.
C20_PreviewIffConditions ==
    Created
        => /\ ret.kind = "UIContent"
           /\ ShownDocument = IF PreviewConditions THEN PreviewDocument ELSE RealDocument

\* C20, amended: create_content renders the search-preview document if and
\* only if it is called with preview_search=True or the four conditions hold,
\* else the buffer's document; called with preview_search=True on a control
\* without search field it raises AttributeError.
C20_PreviewIffAskedOrConditions ==
    Created
        => IF render_call.preview_search /\ ~render_call.search_attached
             THEN ret = Raise("AttributeError")
             ELSE /\ ret.kind = "UIContent"
                  /\ ShownDocument = IF render_call.preview_search \/ PreviewConditions
                                     THEN PreviewDocument ELSE RealDocument

C20_Witness ==
    /\ ContentReturned
    /\ render_call.preview_search
    /\ ~render_call.preview_filter
    /\ ShownDocument = PreviewDocument
    /\ ShownDocument # RealDocument

(***************************************************************************)
(* Properties of the caches of a BufferControl and of preferred_height.    *)
(***************************************************************************)

\* C23: within one create_content call the processors are applied to a line
\* at most once, however often the line is asked for: by the translation of
\* the cursor and the menu position, by get_line, by the heights of
\* preferred_height, or by a later mouse_handler call.
C23_TransformedOnce == \A r \in DOMAIN memo : memo[r] <= 1

\* The line of the rendered cursor was read twice through get_line and then
\* clicked on, and was transformed once.
C23_Witness ==
    /\ op = "mouse_handler"
    /\ event.focused
    /\ Rendered
    /\ asked.set
    /\ asked.n >= 2
    /\ asked.i = event.y
    /\ event.y = 1
    /\ DOMAIN memo = {0, 1}
    /\ memo[1] = 1

\* A render has returned: create_content its Content, preferred_height a
\* height.
RenderReturned ==
    \/ op = "create_content" /\ ret.kind = "UIContent"
    \/ op = "preferred_height" /\ ret.kind = "int"

\* C24: after any edits of the document, changes of the lexer's invalidation
\* hash and renders, the lexer result a render uses was obtained by lexing a
\* document with the current text under the current hash, and every cached
\* result is held under the text and the hash it was lexed with.
C24_LexerCurrent ==
    /\ RenderReturned
         => lexer_used = [set |-> TRUE, text |-> buffer_text, hash |-> invalidation_hash]
    /\ \A i \in 1..Len(fragment_cache) :
          /\ fragment_cache[i].value.text = fragment_cache[i].key[1]
          /\ fragment_cache[i].value.hash = fragment_cache[i].key[2]

\* A render is served by the oldest cached result, after the text and the hash
\* had both changed and come back.
C24_Witness ==
    /\ op = "create_content"
    /\ Len(fragment_cache) >= 3
    /\ lexer_used = fragment_cache[1].value
    /\ fragment_cache[1].key = <<buffer_text, invalidation_hash>>
    /\ fragment_cache[2].key[1] # buffer_text
    /\ fragment_cache[3].key[2] # invalidation_hash

RECURSIVE RowsOfLines(_, _, _)
\* Sum of the heights of the rendered lines (each with the processors' shift
\* and the trailing space) at width w under prefix function f; Diverges when
\* the height of one of them is never computed.
RowsOfLines(lines, w, f) ==
    IF lines = <<>> THEN 0
    ELSE LET first == IF w = 0 THEN Sentinel
                      ELSE Wrap(Len(Head(lines)) + input_processors + 1
                                    + FirstPrefixWidth(f), w, ContPrefixWidth(f), 1)
             rest == RowsOfLines(Tail(lines), w, f)
         IN  IF first = Diverges \/ rest = Diverges THEN Diverges ELSE first + rest

\* C25: preferred_height returns the document's line count when wrap_lines is
\* off, and with wrap_lines on the smaller of max_available_height and the sum
\* of the lines' heights, so never more than max_available_height.
C25_PreferredHeight ==
    [][\A w \in Widths, m \in OfferedHeights, wrap \in BOOLEAN, f \in PrefixFuncs :
          BufferPreferredHeight(w, m, wrap, f)
          => /\ ret'.kind = "int"
             /\ ~wrap => ret'.int = Len(DocLines(buffer_text))
             /\ wrap => /\ ret'.int <= m
                        /\ RowsOfLines(DocLines(buffer_text), w, f) # Diverges
                             => ret'.int = Min(m, RowsOfLines(DocLines(buffer_text), w, f))
      ]_vars

====
